---- MODULE Spec2Model ----
(***************************************************************************)
(* Model of the mongo-data-api client (taskless/mongo-data-api).           *)
(*                                                                         *)
(* The repository carries two revisions of the client:                     *)
(*   "client_ts"  src/src/client.ts      (MongoClient holds the fields)    *)
(*   "part_000"   src/unnamed/part_000   (normalizeRequestOptions,         *)
(*                                        operation names, text fallback)  *)
(* Both are modelled; the impl field of a client says which one built it.  *)
(*                                                                         *)
(* JavaScript values are modelled with bounded depth:                      *)
(*   Scalar  [k, s]                 an array element                       *)
(*   Atom    [k, s, items]          a property value (items: array body)   *)
(*   JSVal   [k, s, items, props]   a value with own properties            *)
(***************************************************************************)
EXTENDS Integers, Sequences, FiniteSets, TLC

\* ---------------------------------------------------------------- bounds
MaxFetchCalls == 2
MaxInFlight == 2
MaxScopes == 2

\* ------------------------------------------------------------- JS values
PropNames == {"document", "documents", "error", "insertedId",
              "projection", "sort", "limit", "skip", "upsert"}

Scalar(k, s) == [k |-> k, s |-> s]
Atom(k, s, items) == [k |-> k, s |-> s, items |-> items]

Undef == Atom("undefined", "", <<>>)
Null == Atom("null", "", <<>>)
False == Atom("boolean", "false", <<>>)
True == Atom("boolean", "true", <<>>)
Zero == Atom("number", "0", <<>>)
One == Atom("number", "1", <<>>)
Str(s) == Atom("string", s, <<>>)
EmptyStr == Str("")
Doc(s) == Atom("doc", s, <<>>)
Arr(items) == Atom("array", "", items)

NoProps == [p \in PropNames |-> Undef]
JSVal(a, props) == [k |-> a.k, s |-> a.s, items |-> a.items, props |-> props]
Lift(a) == JSVal(a, NoProps)
AtomOf(v) == Atom(v.k, v.s, v.items)
Obj(props) == [k |-> "object", s |-> "", items |-> <<>>, props |-> props]
With(props, name, a) == [props EXCEPT ![name] = a]

\* JavaScript truthiness (ToBoolean): undefined, null, false, 0 and ""
\* are falsy, every object, array and non-empty string is truthy.
Truthy(v) ==
    /\ v.k \notin {"undefined", "null"}
    /\ ~(v.k = "boolean" /\ v.s = "false")
    /\ ~(v.k = "number" /\ v.s = "0")
    /\ ~(v.k = "string" /\ v.s = "")

Nullish(v) == v.k \in {"undefined", "null"}

\* a ?? b
Coalesce(a, b) == IF Nullish(a) THEN b ELSE a

\* v?.name : property read with optional chaining; only "object" values
\* carry own properties in this model.
OptGet(v, name) == IF v.k = "object" THEN v.props[name] ELSE Undef

\* ------------------------------------------------ plain objects, headers
\* A plain object / header bag is a function from its own keys to values.
EmptyObject == [n \in {} |-> Undef]
\* A header value is the sequence of the string pieces it is concatenated from.
EmptyHeaders == [n \in {} |-> <<>>]

\* object[name] = value
SetKey(object, name, value) ==
    [n \in (DOMAIN object) \cup {name} |->
        IF n = name THEN value ELSE object[n]]

\* { ...a, ...b } : the keys of both, b wins
SpreadMerge(a, b) ==
    [n \in (DOMAIN a) \cup (DOMAIN b) |->
        IF n \in DOMAIN b THEN b[n] ELSE a[n]]

\* (mutant) only undefined values are removed, a null is kept
removeEmptyKeys_KeepsNull(object) ==
    [n \in {m \in DOMAIN object : object[m].k # "undefined"} |-> object[n]]

\* Object.fromEntries(Object.entries(object).filter(([_, v]) => v))
removeEmptyKeys(object) ==
    [n \in {m \in DOMAIN object : Truthy(object[m])} |-> object[n]]

\* --------------------------------------------------- extended JSON codec
\* EJSON.stringify: an undefined value is written as null (this is why
\* removeEmptyKeys exists), an ObjectId is written as {"$oid": ...}.
EJSONScalarOut(x) ==
    IF x.k = "undefined" THEN Scalar("null", "")
    ELSE IF x.k = "ObjectId" THEN Scalar("$oid", x.s)
    ELSE x

EJSONValueOut(a) ==
    IF a.k = "undefined" THEN Null
    ELSE IF a.k = "ObjectId" THEN Atom("$oid", a.s, <<>>)
    ELSE Atom(a.k, a.s, [i \in DOMAIN a.items |-> EJSONScalarOut(a.items[i])])

EJSONstringify(object) == [n \in DOMAIN object |-> EJSONValueOut(object[n])]

\* EJSON.parse on the parsed JSON tree: {"$oid": ...} becomes an ObjectId.
EJSONScalarIn(x) == IF x.k = "$oid" THEN Scalar("ObjectId", x.s) ELSE x

EJSONValueIn(a) ==
    IF a.k = "$oid" THEN Atom("ObjectId", a.s, <<>>)
    ELSE Atom(a.k, a.s, [i \in DOMAIN a.items |-> EJSONScalarIn(a.items[i])])

EJSONparseTree(v) ==
    JSVal(EJSONValueIn(AtomOf(v)), [p \in PropNames |-> EJSONValueIn(v.props[p])])

\* ---------------------------------------------------------------- errors
NoError == [k |-> "undefined", code |-> 0, message |-> ""]

\* String(message) as done by the Error constructor
ToMessage(a) ==
    IF a.k \in {"string", "number", "boolean"} THEN a.s
    ELSE IF a.k = "array" THEN "<array>"
    ELSE "[object Object]"

MongoDataAPIError(message, code) ==
    [k |-> "MongoDataAPIError", code |-> code, message |-> ToMessage(message)]

\* ---------------------------------------------------------- construction
Impls == {"client_ts", "part_000"}

\* Constructor options:
\*   auth    [given |-> BOOLEAN, obj |-> function from its keys to strings]
\*   fetch   "function", "string" (a non-callable value) or "undefined"
\*   headers [kind |-> "undefined" | "Headers" | "plain", entries |-> bag]
\* globalFetch is globalThis.fetch: "function" or "undefined".
Threw(e) == [ok |-> FALSE, client |-> [impl |-> "none"], error |-> e]
Built(c) == [ok |-> TRUE, client |-> c, error |-> ""]

\* "key" in auth
In(key, auth) == key \in DOMAIN auth.obj

\* (mutant) an email alone is taken for the email and password shape
AuthHeaders_EmailAlone(headers, auth) ==
    IF In("apiKey", auth) THEN
        [ok |-> TRUE, h |-> SetKey(headers, "apiKey", <<auth.obj["apiKey"]>>)]
    ELSE IF In("jwtTokenString", auth) THEN
        [ok |-> TRUE,
         h |-> SetKey(headers, "jwtTokenString", <<auth.obj["jwtTokenString"]>>)]
    ELSE IF In("email", auth) THEN
        [ok |-> TRUE, h |-> SetKey(headers, "email", <<auth.obj["email"]>>)]
    ELSE IF In("bearerToken", auth) THEN
        [ok |-> TRUE,
         h |-> SetKey(headers, "Authorization",
                      <<"Bearer ", auth.obj["bearerToken"]>>)]
    ELSE [ok |-> FALSE, h |-> headers]

\* The auth cascade shared by both revisions: first matching shape wins.
AuthHeaders(headers, auth) ==
    IF In("apiKey", auth) THEN
        [ok |-> TRUE, h |-> SetKey(headers, "apiKey", <<auth.obj["apiKey"]>>)]
    ELSE IF In("jwtTokenString", auth) THEN
        [ok |-> TRUE,
         h |-> SetKey(headers, "jwtTokenString", <<auth.obj["jwtTokenString"]>>)]
    ELSE IF In("email", auth) /\ In("password", auth) THEN
        [ok |-> TRUE,
         h |-> SetKey(SetKey(headers, "email", <<auth.obj["email"]>>),
                      "password", <<auth.obj["password"]>>)]
    ELSE IF In("bearerToken", auth) THEN
        [ok |-> TRUE,
         h |-> SetKey(headers, "Authorization",
                      <<"Bearer ", auth.obj["bearerToken"]>>)]
    ELSE [ok |-> FALSE, h |-> headers]

\* customFetch ?? globalThis.fetch
ResolveFetch(options, globalFetch) ==
    IF options.fetch = "undefined" THEN globalFetch ELSE options.fetch

\* src/src/client.ts : new MongoClient(options)
MongoClient_constructor(options, globalFetch) ==
    LET ftch == ResolveFetch(options, globalFetch)
        \* only objects with a keys() method (a Headers object) are copied
        h0 == IF options.headers.kind = "Headers"
              THEN options.headers.entries ELSE EmptyHeaders
        h1 == SetKey(SetKey(h0, "Content-Type", <<"application/ejson">>),
                     "Accept", <<"application/ejson">>)
        a == AuthHeaders(h1, options.auth)
    IN  IF ftch # "function"
        THEN Threw("Error: No viable fetch() found. Please provide a fetch interface")
        ELSE IF ~options.auth.given
        THEN Threw("TypeError: cannot use 'in' operator")
        ELSE IF ~a.ok
        THEN Threw("Error: Invalid auth options")
        ELSE Built([impl |-> "client_ts",
                    dataSource |-> options.dataSource,
                    endpoint |-> options.endpoint,
                    headers |-> a.h,
                    fetch |-> ftch])

\* src/unnamed/part_000 : new MongoClient(options) = normalizeRequestOptions
normalizeRequestOptions(options, globalFetch) ==
    LET ftch == ResolveFetch(options, globalFetch)
        a == AuthHeaders(EmptyHeaders, options.auth)
    IN  IF options.auth.given /\ ~a.ok
        THEN Threw("Error: Invalid auth options")
        ELSE Built([impl |-> "part_000",
                    dataSource |-> options.dataSource,
                    endpoint |-> options.endpoint,
                    headers |-> IF options.auth.given THEN a.h ELSE EmptyHeaders,
                    fetch |-> ftch])

NewMongoClient(impl, options, globalFetch) ==
    IF impl = "client_ts"
    THEN MongoClient_constructor(options, globalFetch)
    ELSE normalizeRequestOptions(options, globalFetch)

\* ---------------------------------------------------------------- scopes
\* new Database(name, client) / new Collection(name, database)
Database(name, client) == [name |-> name, client |-> client]
\* (mutant) the collection keeps its own name as that of its database
Collection_NoParent(name, database) ==
    [name |-> name,
     database |-> [name |-> name, client |-> database.client],
     client |-> database.client]

Collection(name, database) ==
    [name |-> name, database |-> database, client |-> database.client]

\* ------------------------------------------------------- typed operations
TypedOps == {"findOne", "find", "insertOne", "insertMany", "updateOne",
             "updateMany", "replaceOne", "deleteOne", "deleteMany",
             "aggregate"}

UndefVal == Lift(Undef)
Arg(args, i) == IF i <= Len(args) THEN args[i] ELSE UndefVal

\* part_000: typeof args[0] === "string" ? args : ["default", ...args]
\* client_ts has no label parameter.
NormalizeArgs(impl, args) ==
    IF impl = "part_000"
    THEN IF Len(args) >= 1 /\ args[1].k = "string"
         THEN args ELSE <<Lift(Str("default"))>> \o args
    ELSE <<UndefVal>> \o args

\* The canonical body each typed method hands to callApi; a is the
\* normalized argument list (a[1] is the operation name).
BodyOf(op, a) ==
    CASE op = "findOne" ->
            [filter |-> AtomOf(Arg(a, 2)),
             projection |-> OptGet(Arg(a, 3), "projection"),
             sort |-> OptGet(Arg(a, 3), "sort")]
      [] op = "find" ->
            [filter |-> AtomOf(Arg(a, 2)),
             projection |-> OptGet(Arg(a, 3), "projection"),
             sort |-> OptGet(Arg(a, 3), "sort"),
             limit |-> OptGet(Arg(a, 3), "limit"),
             skip |-> OptGet(Arg(a, 3), "skip")]
      [] op = "insertOne" -> [document |-> AtomOf(Arg(a, 2))]
      [] op = "insertMany" -> [documents |-> AtomOf(Arg(a, 2))]
      [] op \in {"updateOne", "updateMany"} ->
            [filter |-> AtomOf(Arg(a, 2)),
             update |-> AtomOf(Arg(a, 3)),
             upsert |-> OptGet(Arg(a, 4), "upsert")]
      [] op = "replaceOne" ->
            [filter |-> AtomOf(Arg(a, 2)),
             replacement |-> AtomOf(Arg(a, 3)),
             upsert |-> OptGet(Arg(a, 4), "upsert")]
      [] op \in {"deleteOne", "deleteMany"} -> [filter |-> AtomOf(Arg(a, 2))]
      [] op = "aggregate" -> [pipeline |-> AtomOf(Arg(a, 2))]

\* ------------------------------------------------- callApi: compose, send
\* new Headers(h) stores header names in lower case.
Lower(n) ==
    CASE n = "apiKey" -> "apikey"
      [] n = "jwtTokenString" -> "jwttokenstring"
      [] n = "Authorization" -> "authorization"
      [] n = "Content-Type" -> "content-type"
      [] n = "Accept" -> "accept"
      [] OTHER -> n

NewHeaders(h) ==
    [n \in {Lower(m) : m \in DOMAIN h} |->
        h[CHOOSE m \in DOMAIN h : Lower(m) = n]]

\* (mutant) the request carries the content type only
RequestHeaders_ContentTypeOnly(client, operationName) ==
    SetKey(EmptyHeaders, "content-type", <<"application/ejson">>)

RequestHeaders(client, operationName) ==
    IF client.impl = "part_000"
    THEN LET h1 == SetKey(NewHeaders(client.headers), "content-type",
                          <<"application/ejson">>)
         IN  IF Truthy(operationName)
             THEN SetKey(h1, "x-realm-op-name", <<operationName.s>>)
             ELSE h1
    ELSE client.headers

\* (mutant) the scope is spread after the caller body and overrides it
ComposeBody_ScopeWins(scope, body) ==
    SpreadMerge(removeEmptyKeys(body),
                [collection |-> Str(scope.name),
                 database |-> Str(scope.database.name),
                 dataSource |-> Str(scope.client.dataSource)])

\* { collection, database, dataSource, ...removeEmptyKeys(body) }
ComposeBody(scope, body) ==
    SpreadMerge([collection |-> Str(scope.name),
                 database |-> Str(scope.database.name),
                 dataSource |-> Str(scope.client.dataSource)],
                removeEmptyKeys(body))

\* The request handed to the transport by callApi(method, body, options)
BuildRequest(scope, method, body, operationName) ==
    [url |-> <<scope.client.endpoint, "/action/", method>>,
     method |-> "POST",
     headers |-> RequestHeaders(scope.client, operationName),
     body |-> EJSONstringify(ComposeBody(scope, body))]

\* ------------------------------------------- callApi: classify and decode
\* A response: [status, statusText (Atom), body], where body is
\*   [readable |-> the body stream can be read,
\*    json     |-> the raw text is well-formed JSON,
\*    raw      |-> the raw text,
\*    tree     |-> the JSON tree of the text (when json)]
Result(data, error) == [data |-> data, error |-> error]
Returned(r, reads) ==
    [kind |-> "returned", result |-> r, exception |-> "", reads |-> reads]
Thrown(e, reads) ==
    [kind |-> "threw", result |-> Result(UndefVal, NoError),
     exception |-> e, reads |-> reads]

\* response.json()
ReadJson(response) ==
    [ok |-> response.body.readable /\ response.body.json,
     v |-> response.body.tree]

\* response.text()
ReadText(response) ==
    [ok |-> response.body.readable, v |-> Str(response.body.raw)]

\* fallbackMessage?.[response.status]
fallbackMessage(status) ==
    CASE status = 400 -> Str("Bad Request")
      [] status = 401 -> Str("Unauthorized")
      [] status = 404 -> Str("Not Found")
      [] status = 500 -> Str("Internal Server Error")
      [] OTHER -> Undef

\* (mutant) the lower bound of the success range is forgotten
IsErrorStatus_NoLowerBound(status) == status >= 400

\* response.status < 200 || response.status >= 400
IsErrorStatus(status) == status < 200 \/ status >= 400

\* (mutant) the body of an error response is not consulted
ErrorText_IgnoresBody(impl, response) == Undef

\* The text extracted from the body of an error response.
ErrorText(impl, response) ==
    LET j == ReadJson(response)
        t == ReadText(response)
    IN  IF j.ok THEN OptGet(j.v, "error")
        ELSE IF impl = "part_000" /\ t.ok THEN t.v
        ELSE Undef

ErrorReads(impl, response) ==
    IF ReadJson(response).ok \/ impl = "client_ts"
    THEN <<"json">> ELSE <<"json", "text">>

\* (mutant) the error result also carries data: null
ErrorResult_WithNullData(impl, response) ==
    Result(Lift(Null), MongoDataAPIError(Str("Data API Error"), response.status))

ErrorResult(impl, response) ==
    Result(UndefVal,
           MongoDataAPIError(
               Coalesce(ErrorText(impl, response),
                 Coalesce(response.statusText,
                   Coalesce(fallbackMessage(response.status),
                            Str("Data API Error")))),
               response.status))

\* (mutant) the body is parsed as plain JSON instead of extended JSON
callApi_PlainJson(impl, response) ==
    IF IsErrorStatus(response.status)
    THEN Returned(ErrorResult(impl, response), ErrorReads(impl, response))
    ELSE IF ~ReadText(response).ok
    THEN Thrown("TypeError: body unreadable", <<"text">>)
    ELSE IF ~response.body.json
    THEN Thrown("SyntaxError", <<"text", "EJSON.parse">>)
    ELSE Returned(Result(response.body.tree, NoError),
                  <<"text", "EJSON.parse">>)

\* (mutant) the read of the error body is not guarded by try/catch
callApi_NoCatch(impl, response) ==
    IF IsErrorStatus(response.status)
    THEN IF ReadJson(response).ok
         THEN Returned(ErrorResult(impl, response), <<"json">>)
         ELSE Thrown("SyntaxError", <<"json">>)
    ELSE IF ~ReadText(response).ok
    THEN Thrown("TypeError: body unreadable", <<"text">>)
    ELSE IF ~response.body.json
    THEN Thrown("SyntaxError", <<"text", "EJSON.parse">>)
    ELSE Returned(Result(EJSONparseTree(response.body.tree), NoError),
                  <<"text", "EJSON.parse">>)

\* (mutant) a decode failure on the success path becomes an error result
callApi_DecodeFailureAsError(impl, response) ==
    IF IsErrorStatus(response.status)
    THEN Returned(ErrorResult(impl, response), ErrorReads(impl, response))
    ELSE IF ~ReadText(response).ok \/ ~response.body.json
    THEN Returned(Result(UndefVal,
                         MongoDataAPIError(Str("SyntaxError"),
                                           response.status)),
                  <<"text", "EJSON.parse">>)
    ELSE Returned(Result(EJSONparseTree(response.body.tree), NoError),
                  <<"text", "EJSON.parse">>)

\* (mutant) the body is read and decoded before the status is looked at
callApi_DecodeFirst(impl, response) ==
    IF ~ReadText(response).ok
    THEN Thrown("TypeError: body unreadable", <<"text">>)
    ELSE IF ~response.body.json
    THEN Thrown("SyntaxError", <<"text", "EJSON.parse">>)
    ELSE IF IsErrorStatus(response.status)
    THEN Returned(ErrorResult(impl, response),
                  <<"text", "EJSON.parse">> \o ErrorReads(impl, response))
    ELSE Returned(Result(EJSONparseTree(response.body.tree), NoError),
                  <<"text", "EJSON.parse">>)

\* Everything callApi does once the transport has answered.
callApi(impl, response) ==
    IF IsErrorStatus(response.status)
    THEN Returned(ErrorResult(impl, response), ErrorReads(impl, response))
    ELSE IF ~ReadText(response).ok
    THEN Thrown("TypeError: body unreadable", <<"text">>)
    ELSE IF ~response.body.json
    THEN Thrown("SyntaxError", <<"text", "EJSON.parse">>)
    ELSE Returned(Result(EJSONparseTree(response.body.tree), NoError),
                  <<"text", "EJSON.parse">>)

\* ------------------------------------------- typed operations: the unwrap
\* (mutant) the document is returned without the ?? null default
findOne_NoNullDefault(r) ==
    IF Truthy(r.data)
    THEN Result(Lift(OptGet(r.data, "document")), r.error)
    ELSE r

\* if (data) return { data: data.document ?? null, error }; return {data, error}
findOne(r) ==
    IF Truthy(r.data)
    THEN Result(Lift(Coalesce(OptGet(r.data, "document"), Null)), r.error)
    ELSE r

\* (mutant) find unwraps .document instead of .documents
find_WrongField(r) ==
    IF Truthy(r.data)
    THEN Result(Lift(OptGet(r.data, "document")), r.error)
    ELSE r

\* if (data) return { data: data.documents, error }; return { data, error }
find(r) ==
    IF Truthy(r.data)
    THEN Result(Lift(OptGet(r.data, "documents")), r.error)
    ELSE r

\* (mutant) without data, aggregate gives the generic error whatever the
\* invoker's error was
aggregate_AlwaysUnknown(r) ==
    IF Truthy(r.data)
    THEN Result(Lift(OptGet(r.data, "documents")), NoError)
    ELSE Result(UndefVal,
                [k |-> "MongoDataAPIError", code |-> -1,
                 message |-> "Unknown error"])

\* (mutant) aggregate re-packages the data only and loses the error
aggregate_DropsError(r) ==
    Result(Lift(OptGet(r.data, "documents")), NoError)

\* response.data ? { data: response.data.documents }
\*               : { error: response.error ?? new MongoDataAPIError(...) }
aggregate(r) ==
    IF Truthy(r.data)
    THEN Result(Lift(OptGet(r.data, "documents")), NoError)
    ELSE Result(UndefVal,
                IF r.error.k = "undefined"
                THEN [k |-> "MongoDataAPIError", code |-> -1,
                      message |-> "Unknown error"]
                ELSE r.error)

\* (mutant) insertOne hands back the inserted id instead of the envelope
Unwrap_InsertedId(op, r) ==
    CASE op = "findOne" -> findOne(r)
      [] op = "find" -> find(r)
      [] op = "aggregate" -> aggregate(r)
      [] op = "insertOne" /\ Truthy(r.data) ->
            Result(Lift(OptGet(r.data, "insertedId")), r.error)
      [] OTHER -> r

Unwrap(op, r) ==
    CASE op = "findOne" -> findOne(r)
      [] op = "find" -> find(r)
      [] op = "aggregate" -> aggregate(r)
      [] OTHER -> r

\* The outcome of an operation method given the outcome of its callApi;
\* the steps it records end with "unwrap" when the method takes a field
\* out of the envelope.
Operation(op, impl, response) ==
    LET o == callApi(impl, response)
    IN  IF o.kind = "threw" THEN o
        ELSE Returned(Unwrap(op, o.result),
                      IF op \in {"findOne", "find", "aggregate"}
                            /\ Truthy(o.result.data)
                      THEN o.reads \o <<"unwrap">> ELSE o.reads)

\* (mutant) a transport failure is turned into an error result
Rejected_AsErrorResult(op, failure) ==
    Returned(Result(UndefVal, MongoDataAPIError(Str(failure), -1)), <<>>)

\* The outcome of an operation method when "await ftch(...)" rejects: no
\* method has a try/catch around it, so the failure leaves the method.
Rejected(op, failure) == Thrown(failure, <<>>)

\* ------------------------------------------------------------------ state
VARIABLES
    globalFetch,  \* globalThis.fetch: "function" or "undefined"
    ctor,         \* outcome of the latest new MongoClient(...): state "none",
                  \* or the Built / Threw record with state "ok" / "threw"
    dbs,          \* the Database scopes created so far
    colls,        \* the Collection scopes created so far
    calls,        \* per call slot: the operation invocation occupying it
    fetchCalls    \* how many times the transport function has been called

vars == <<globalFetch, ctor, dbs, colls, calls, fetchCalls>>

CallIds == 1 .. MaxInFlight

NoClient == [impl |-> "none"]
NoAuth == [given |-> FALSE, obj |-> EmptyHeaders]
NoOptions ==
    [endpoint |-> "", dataSource |-> "", auth |-> NoAuth,
     fetch |-> "undefined",
     headers |-> [kind |-> "undefined", entries |-> EmptyHeaders]]
NoCtor ==
    [state |-> "none", client |-> NoClient, error |-> "",
     options |-> NoOptions]
CtorOf(options, b) ==
    [state |-> IF b.ok THEN "ok" ELSE "threw",
     client |-> b.client, error |-> b.error, options |-> options]

NoResponse ==
    [status |-> 0, statusText |-> Undef,
     body |-> [readable |-> FALSE, json |-> FALSE, raw |-> "",
               tree |-> UndefVal]]
NoRequest ==
    [url |-> <<>>, method |-> "", headers |-> EmptyHeaders,
     body |-> EmptyObject]
NoOutcome ==
    [kind |-> "none", result |-> Result(UndefVal, NoError),
     exception |-> "", reads |-> <<>>]
NoScope == [name |-> "", database |-> [name |-> "", client |-> NoClient],
            client |-> NoClient]

IdleCall ==
    [pc |-> "idle", op |-> "", method |-> "", scope |-> NoScope,
     label |-> Undef,
     body |-> EmptyObject, request |-> NoRequest, sent |-> 0,
     transport |-> "none", failure |-> "", response |-> NoResponse,
     outcome |-> NoOutcome]

\* ---------------------------------------------------------------- actions
\* (mutant) the constructor probes the endpoint with the transport
Construct_ProbesEndpoint(impl, options) ==
    /\ fetchCalls < MaxFetchCalls
    /\ ctor' = CtorOf(options, NewMongoClient(impl, options, globalFetch))
    /\ fetchCalls' = fetchCalls + 1
    /\ UNCHANGED <<globalFetch, dbs, colls, calls>>

\* new MongoClient(options)
Construct(impl, options) ==
    /\ ctor' = CtorOf(options, NewMongoClient(impl, options, globalFetch))
    /\ UNCHANGED <<globalFetch, dbs, colls, calls, fetchCalls>>

\* client.db(name)
Db(name) ==
    /\ ctor.state = "ok"
    /\ dbs' = dbs \cup {Database(name, ctor.client)}
    /\ UNCHANGED <<globalFetch, ctor, colls, calls, fetchCalls>>

\* database.collection(name)
Coll(database, name) ==
    /\ database \in dbs
    /\ colls' = colls \cup {Collection(name, database)}
    /\ UNCHANGED <<globalFetch, ctor, dbs, calls, fetchCalls>>

\* (mutant) the per-call headers are set on the headers object the scope
\* shares with its client, instead of on a copy
Send_SetsSharedHeaders(c, scope, op, method, body, operationName) ==
    LET request == BuildRequest(scope, method, body, operationName)
        callable == scope.client.fetch = "function"
        leaked == [scope EXCEPT !.client.headers = request.headers]
    IN  /\ calls[c].pc # "awaiting"
        /\ scope \in colls
        /\ fetchCalls < MaxFetchCalls
        /\ calls' = [calls EXCEPT ![c] =
              [pc |-> IF callable THEN "awaiting" ELSE "done",
               op |-> op, method |-> method, scope |-> scope,
               label |-> operationName,
               body |-> body, request |-> request,
               sent |-> IF callable THEN 1 ELSE 0,
               transport |-> IF callable THEN "pending" ELSE "none",
               failure |-> "",
               response |-> NoResponse,
               outcome |-> IF callable THEN NoOutcome
                           ELSE Thrown("TypeError: ftch is not a function",
                                       <<>>)]]
        /\ fetchCalls' = IF callable THEN fetchCalls + 1 ELSE fetchCalls
        /\ colls' = (colls \ {scope}) \cup {leaked}
        /\ UNCHANGED <<globalFetch, ctor, dbs>>

\* callApi up to its first await: compose the request and call the
\* transport.  A transport that is not callable throws before any call.
Send(c, scope, op, method, body, operationName) ==
    LET request == BuildRequest(scope, method, body, operationName)
        callable == scope.client.fetch = "function"
    IN  /\ calls[c].pc # "awaiting"
        /\ scope \in colls
        /\ fetchCalls < MaxFetchCalls
        /\ calls' = [calls EXCEPT ![c] =
              [pc |-> IF callable THEN "awaiting" ELSE "done",
               op |-> op, method |-> method, scope |-> scope,
               label |-> operationName,
               body |-> body, request |-> request,
               sent |-> IF callable THEN 1 ELSE 0,
               transport |-> IF callable THEN "pending" ELSE "none",
               failure |-> "",
               response |-> NoResponse,
               outcome |-> IF callable THEN NoOutcome
                           ELSE Thrown("TypeError: ftch is not a function",
                                       <<>>)]]
        /\ fetchCalls' = IF callable THEN fetchCalls + 1 ELSE fetchCalls
        /\ UNCHANGED <<globalFetch, ctor, dbs, colls>>

\* collection.<op>(...args)
Invoke(c, scope, op, args) ==
    LET a == NormalizeArgs(scope.client.impl, args)
    IN  /\ op \in TypedOps
        /\ Send(c, scope, op, op, BodyOf(op, a), AtomOf(a[1]))

\* collection.callApi(method, body, requestOptions).  part_000 reads
\* requestOptions.operationName unguarded: called without the third
\* argument it throws before the request is composed.  client_ts takes no
\* third argument.
InvokeCallApi(c, scope, method, body, requestOptions) ==
    IF scope.client.impl = "part_000" /\ ~requestOptions.given
    THEN /\ calls[c].pc # "awaiting"
         /\ scope \in colls
         /\ calls' = [calls EXCEPT ![c] =
               [IdleCall EXCEPT
                   !.pc = "done", !.op = "callApi", !.method = method,
                   !.scope = scope, !.body = body,
                   !.outcome = Thrown("TypeError: requestOptions is undefined",
                                      <<>>)]]
         /\ UNCHANGED <<globalFetch, ctor, dbs, colls, fetchCalls>>
    ELSE Send(c, scope, "callApi", method, body,
              IF scope.client.impl = "part_000"
              THEN requestOptions.operationName ELSE Undef)

\* (mutant) the operation being served is kept in one place shared by all
\* the calls in flight: every response is unwrapped as call 1's operation
Respond_SharedOperation(c, response) ==
    /\ calls[c].pc = "awaiting"
    /\ calls' = [calls EXCEPT ![c] =
          [@ EXCEPT !.pc = "done", !.response = response,
                    !.transport = "responded",
                    !.outcome = Operation(calls[1].op,
                                          calls[c].scope.client.impl,
                                          response)]]
    /\ UNCHANGED <<globalFetch, ctor, dbs, colls, fetchCalls>>

\* The transport resolves with a response; the method runs to its return.
Respond(c, response) ==
    /\ calls[c].pc = "awaiting"
    /\ calls' = [calls EXCEPT ![c] =
          [@ EXCEPT !.pc = "done", !.response = response,
                    !.transport = "responded",
                    !.outcome = Operation(calls[c].op,
                                          calls[c].scope.client.impl,
                                          response)]]
    /\ UNCHANGED <<globalFetch, ctor, dbs, colls, fetchCalls>>

\* (mutant) a failure of the transport is retried: the request is sent
\* again and the call goes on waiting
Reject_Retries(c, failure) ==
    /\ calls[c].pc = "awaiting"
    /\ fetchCalls < MaxFetchCalls
    /\ fetchCalls' = fetchCalls + 1
    /\ calls' = [calls EXCEPT ![c] = [@ EXCEPT !.failure = failure]]
    /\ UNCHANGED <<globalFetch, ctor, dbs, colls>>

\* The transport rejects with a failure; the method runs to its end.
Reject(c, failure) ==
    /\ calls[c].pc = "awaiting"
    /\ calls' = [calls EXCEPT ![c] =
          [@ EXCEPT !.pc = "done", !.transport = "rejected",
                    !.failure = failure,
                    !.outcome = Rejected(calls[c].op, failure)]]
    /\ UNCHANGED <<globalFetch, ctor, dbs, colls, fetchCalls>>

\* ----------------------------------------------------------------- inputs
DocF == Doc("filter")
DocU == Doc("update")
DocNested == Doc("{n: null}")       \* a document holding a nested null
DocList == Arr(<<Scalar("doc", "a"), Scalar("ObjectId", "b")>>)

Options(props) == Obj(props)
OptionSets(op) ==
    CASE op = "findOne" ->
            {Options(With(NoProps, "projection", Null)),
             Options(With(With(NoProps, "projection", DocF), "sort", DocU))}
      [] op = "find" ->
            {Options(With(With(NoProps, "limit", Zero), "skip", Zero)),
             Options(With(With(NoProps, "limit", One), "projection", Null)),
             Options(With(With(With(NoProps, "sort", DocNested),
                               "limit", One), "skip", One))}
      [] OTHER ->
            {Options(With(NoProps, "upsert", False)),
             Options(With(NoProps, "upsert", True)),
             Options(With(NoProps, "upsert", Null))}

\* Argument lists (without a label) of each typed operation
ArgsFor(op) ==
    CASE op \in {"findOne", "find"} ->
            {<<>>, <<Lift(DocF)>>}
            \cup {<<f, o>> : f \in {UndefVal, Lift(DocF)}, o \in OptionSets(op)}
      [] op = "insertOne" -> {<<Lift(DocNested)>>, <<Lift(Doc("a"))>>}
      [] op = "insertMany" -> {<<Lift(DocList)>>}
      [] op \in {"updateOne", "updateMany", "replaceOne"} ->
            {<<Lift(DocF), Lift(DocNested)>>}
            \cup {<<Lift(DocF), Lift(DocNested), o>> : o \in OptionSets(op)}
      [] op \in {"deleteOne", "deleteMany"} -> {<<Lift(DocF)>>}
      [] op = "aggregate" -> {<<Lift(DocList)>>}

\* A leading tracing label exists only in part_000
Labels(impl) ==
    IF impl = "part_000"
    THEN {<<>>, <<Lift(Str("op1"))>>, <<Lift(EmptyStr)>>}
    ELSE {<<>>}

\* The third argument of callApi: missing, or an options object
NoRequestOptions == [given |-> FALSE, operationName |-> Undef]
RequestOptions(operationName) ==
    [given |-> TRUE, operationName |-> operationName]
RequestOptionSets(impl) ==
    IF impl = "part_000"
    THEN {NoRequestOptions, RequestOptions(Undef), RequestOptions(Str("op1"))}
    ELSE {NoRequestOptions}

\* Bodies handed to the raw callApi
RawBodies ==
    {EmptyObject,
     [filter |-> DocF, limit |-> Zero, note |-> EmptyStr, upsert |-> False],
     [filter |-> DocNested, projection |-> Undef, sort |-> Null],
     [collection |-> Str("other"), database |-> Undef, count |-> One],
     [collection |-> Null, database |-> EmptyStr,
      dataSource |-> Str("other-source")]}

RawMethods == {"find", "customAction"}

\* Failures of the transport itself
TransportFailures == {"ECONNRESET", "AbortError"}

SuccessStatuses == {200, 201, 399}
ErrorStatuses == {199, 400, 401, 404, 500, 503}
StatusTexts == {Undef, EmptyStr, Str("Status Text")}

JsonBody(raw, tree) ==
    [readable |-> TRUE, json |-> TRUE, raw |-> raw, tree |-> tree]
TextBody(raw) ==
    [readable |-> TRUE, json |-> FALSE, raw |-> raw, tree |-> UndefVal]
Unreadable ==
    [readable |-> FALSE, json |-> FALSE, raw |-> "", tree |-> UndefVal]

DocsAB == Arr(<<Scalar("doc", "a"), Scalar("$oid", "b")>>)
DocsBA == Arr(<<Scalar("$oid", "b"), Scalar("doc", "a")>>)

Bodies ==
    {Unreadable,
     TextBody("<html>"),
     TextBody(""),
     JsonBody("null", Lift(Null)),
     JsonBody("0", Lift(Zero)),
     JsonBody("{}", Obj(NoProps)),
     JsonBody("{document:null}", Obj(With(NoProps, "document", Null))),
     JsonBody("{document:a}", Obj(With(NoProps, "document", Doc("a")))),
     JsonBody("{document:$oid}",
              Obj(With(NoProps, "document", Atom("$oid", "b", <<>>)))),
     JsonBody("{documents:[]}", Obj(With(NoProps, "documents", Arr(<<>>)))),
     JsonBody("{documents:[a,b]}", Obj(With(NoProps, "documents", DocsAB))),
     JsonBody("{documents:[b,a]}", Obj(With(NoProps, "documents", DocsBA))),
     JsonBody("{insertedId:$oid}",
              Obj(With(NoProps, "insertedId", Atom("$oid", "b", <<>>)))),
     JsonBody("{error:Unauthorized}",
              Obj(With(NoProps, "error", Str("Unauthorized")))),
     JsonBody("{error:''}", Obj(With(NoProps, "error", EmptyStr))),
     JsonBody("{error:null}", Obj(With(NoProps, "error", Null)))}

Responses ==
    {[status |-> st, statusText |-> Str("OK"), body |-> b] :
        st \in SuccessStatuses, b \in Bodies}
    \cup
    {[status |-> st, statusText |-> tx, body |-> b] :
        st \in ErrorStatuses, tx \in StatusTexts, b \in Bodies}

\* The inputs of the specification that explores the responses: one
\* argument list per operation
BasicArgs(op) ==
    CASE op \in {"findOne", "find", "deleteOne", "deleteMany"} ->
            {<<Lift(DocF)>>}
      [] op = "insertOne" -> {<<Lift(Doc("a"))>>}
      [] op \in {"insertMany", "aggregate"} -> {<<Lift(DocList)>>}
      [] OTHER -> {<<Lift(DocF), Lift(DocU)>>}

BasicLabels(impl) ==
    IF impl = "part_000" THEN {<<>>, <<Lift(Str("op1"))>>} ELSE {<<>>}

BasicRawBodies == {[filter |-> DocF]}

\* ... and of the one that explores the requests: a few responses
FewResponses ==
    {[status |-> 200, statusText |-> Str("OK"),
      body |-> JsonBody("{documents:[a,b]}",
                        Obj(With(NoProps, "documents", DocsAB)))],
     [status |-> 400, statusText |-> Str("Bad Request"),
      body |-> JsonBody("{error:Bad Request}",
                        Obj(With(NoProps, "error", Str("Bad Request"))))]}

ApiKeyAuth == [given |-> TRUE, obj |-> [apiKey |-> "validApiKey"]]
NoHeaders == [kind |-> "undefined", entries |-> EmptyHeaders]
DefaultOptions ==
    [endpoint |-> "https://endpoint", dataSource |-> "test-datasource",
     auth |-> ApiKeyAuth, fetch |-> "function", headers |-> NoHeaders]

\* ---------------------------------------------------------- specification
\* Spec: one client of either revision, one collection scope, operations
\* issued one after the other on call slot 1.
Init ==
    /\ globalFetch = "function"
    /\ \E impl \in Impls :
          /\ ctor = CtorOf(DefaultOptions,
                           NewMongoClient(impl, DefaultOptions, "function"))
          /\ dbs = {Database("test-db", ctor.client)}
    /\ colls = {Collection("test-collection", d) : d \in dbs}
    /\ calls = [c \in CallIds |-> IdleCall]
    /\ fetchCalls = 0

InvokeTypedFrom(argsOf(_), labelsOf(_)) ==
    \E scope \in colls, op \in TypedOps :
        \E l \in labelsOf(scope.client.impl), args \in argsOf(op) :
            Invoke(1, scope, op, l \o args)

InvokeRawFrom(bodies) ==
    \E scope \in colls, m \in RawMethods, b \in bodies :
        \E o \in RequestOptionSets(scope.client.impl) :
            InvokeCallApi(1, scope, m, b, o)

InvokeTyped == InvokeTypedFrom(BasicArgs, BasicLabels)
InvokeRaw == InvokeRawFrom(BasicRawBodies)
TransportResponds == \E r \in Responses : Respond(1, r)
TransportRejects == \E f \in TransportFailures : Reject(1, f)

Next ==
    \/ InvokeTyped
    \/ InvokeRaw
    \/ TransportResponds
    \/ TransportRejects

Spec == Init /\ [][Next]_vars

\* SpecReq: the same program, exploring the requests it composes.
ReqInvokeTyped == InvokeTypedFrom(ArgsFor, Labels)
ReqInvokeRaw == InvokeRawFrom(RawBodies)
ReqTransportResponds == \E r \in FewResponses : Respond(1, r)

NextReq ==
    \/ ReqInvokeTyped
    \/ ReqInvokeRaw
    \/ ReqTransportResponds
    \/ TransportRejects

SpecReq == Init /\ [][NextReq]_vars

\* SpecCtor: construction and the scope chain, from an empty program.
AuthShapes ==
    {NoAuth,
     [given |-> TRUE, obj |-> EmptyHeaders],
     [given |-> TRUE, obj |-> [notValid |-> "x"]],
     ApiKeyAuth,
     [given |-> TRUE, obj |-> [jwtTokenString |-> "jwt"]],
     [given |-> TRUE, obj |-> [email |-> "e@mail", password |-> "pw"]],
     [given |-> TRUE, obj |-> [email |-> "e@mail"]],
     [given |-> TRUE, obj |-> [password |-> "pw"]],
     [given |-> TRUE, obj |-> [bearerToken |-> "tok"]],
     [given |-> TRUE, obj |-> [email |-> "e@mail", bearerToken |-> "tok"]],
     [given |-> TRUE, obj |-> [apiKey |-> "validApiKey", bearerToken |-> "tok"]]}

FetchOptions == {"function", "string", "undefined"}
HeaderOptions ==
    {NoHeaders,
     [kind |-> "Headers", entries |-> [custom |-> <<"c1">>]],
     [kind |-> "plain", entries |-> [custom |-> <<"c1">>]]}

CtorOptions ==
    {[DefaultOptions EXCEPT !.auth = a] : a \in AuthShapes}
    \cup {[DefaultOptions EXCEPT !.fetch = f] : f \in FetchOptions}
    \cup {[DefaultOptions EXCEPT !.headers = h] : h \in HeaderOptions}

DbNames == {"test-db"}
CollNames == {"test-collection"}

InitCtor ==
    /\ globalFetch \in {"function", "undefined"}
    /\ ctor = NoCtor
    /\ dbs = {}
    /\ colls = {}
    /\ calls = [c \in CallIds |-> IdleCall]
    /\ fetchCalls = 0

CtorConstruct == \E impl \in Impls, o \in CtorOptions : Construct(impl, o)
ScopeCount == Cardinality(dbs) + Cardinality(colls)
CtorDb == \E n \in DbNames : ScopeCount < MaxScopes /\ Db(n)
CtorColl ==
    \E d \in dbs, n \in CollNames :
        ScopeCount < MaxScopes /\ Coll(d, n)
CtorInvoke == \E scope \in colls : Invoke(1, scope, "findOne", <<>>)

NextCtor ==
    \/ CtorConstruct
    \/ CtorDb
    \/ CtorColl
    \/ CtorInvoke
    \/ ReqTransportResponds
    \/ TransportRejects

SpecCtor == InitCtor /\ [][NextCtor]_vars

\* SpecConc: two scopes of one client, operations in flight at once on
\* every call slot, answered in any order.
ConcOps == {"findOne", "aggregate"}
ConcArgs(op) ==
    IF op = "findOne" THEN {<<Lift(DocF)>>, <<Lift(DocU)>>}
    ELSE {<<Lift(DocList)>>}
ConcLabels(impl) ==
    IF impl = "part_000"
    THEN {<<Lift(Str("op1"))>>, <<Lift(Str("op2"))>>}
    ELSE {<<>>}

InitConc ==
    /\ globalFetch = "function"
    /\ \E impl \in Impls :
          /\ ctor = CtorOf(DefaultOptions,
                           NewMongoClient(impl, DefaultOptions, "function"))
          /\ dbs = {Database("test-db", ctor.client),
                    Database("other-db", ctor.client)}
    /\ colls = {Collection("test-collection",
                           Database("test-db", ctor.client)),
                Collection("other-collection",
                           Database("other-db", ctor.client))}
    /\ calls = [c \in CallIds |-> IdleCall]
    /\ fetchCalls = 0

ConcInvokeTyped ==
    \E c \in CallIds, scope \in colls, op \in ConcOps :
        \E l \in ConcLabels(scope.client.impl), args \in ConcArgs(op) :
            Invoke(c, scope, op, l \o args)
ConcInvokeRaw ==
    \E c \in CallIds, scope \in colls, b \in BasicRawBodies :
        \E o \in RequestOptionSets(scope.client.impl) :
            InvokeCallApi(c, scope, "find", b, o)
ConcTransportResponds == \E c \in CallIds, r \in FewResponses : Respond(c, r)
ConcTransportRejects ==
    \E c \in CallIds, f \in TransportFailures : Reject(c, f)

NextConc ==
    \/ ConcInvokeTyped
    \/ ConcInvokeRaw
    \/ ConcTransportResponds
    \/ ConcTransportRejects

SpecConc == InitConc /\ [][NextConc]_vars

\* SpecScope: one client, databases and collections of several names
\* created while operations run on the existing ones.
\* (name: string is the only constraint on a name: "" is accepted)
ScopeDbNames == {"test-db", "other-db", ""}
ScopeCollNames == {"test-collection", "other-collection", ""}

InitScope ==
    /\ globalFetch = "function"
    /\ \E impl \in Impls :
          ctor = CtorOf(DefaultOptions,
                        NewMongoClient(impl, DefaultOptions, "function"))
    /\ dbs = {Database("test-db", ctor.client)}
    /\ colls = {Collection("test-collection", d) : d \in dbs}
    /\ calls = [c \in CallIds |-> IdleCall]
    /\ fetchCalls = 0

\* the scopes created after the initial pair
ScopesAdded == ScopeCount - 2
ScopeDb == \E n \in ScopeDbNames : ScopesAdded < MaxScopes /\ Db(n)
ScopeColl ==
    \E d \in dbs, n \in ScopeCollNames :
        ScopesAdded < MaxScopes /\ Coll(d, n)
ScopeInvoke ==
    \E c \in CallIds, scope \in colls :
        Invoke(c, scope, "findOne", <<Lift(DocF)>>)
ScopeTransportResponds ==
    \E c \in CallIds, r \in FewResponses : Respond(c, r)
ScopeTransportRejects ==
    \E c \in CallIds, f \in TransportFailures : Reject(c, f)

NextScope ==
    \/ ScopeDb
    \/ ScopeColl
    \/ ScopeInvoke
    \/ ScopeTransportResponds
    \/ ScopeTransportRejects

SpecScope == InitScope /\ [][NextScope]_vars

\* SpecLive: every call slot hosts one invocation, and a transport that
\* has been called eventually answers or fails; the continuation of the
\* await then runs.
LiveOps == {"findOne", "insertOne", "aggregate"}

LiveInvokeTyped ==
    \E c \in CallIds, scope \in colls, op \in LiveOps :
        \E l \in BasicLabels(scope.client.impl), args \in BasicArgs(op) :
            calls[c].pc = "idle" /\ Invoke(c, scope, op, l \o args)
LiveInvokeRaw ==
    \E c \in CallIds, scope \in colls, b \in BasicRawBodies :
        \E o \in RequestOptionSets(scope.client.impl) :
            calls[c].pc = "idle" /\ InvokeCallApi(c, scope, "find", b, o)
TransportSettles(c) ==
    \/ \E r \in FewResponses : Respond(c, r)
    \/ \E f \in TransportFailures : Reject(c, f)
LiveTransportSettles == \E c \in CallIds : TransportSettles(c)

NextLive ==
    \/ LiveInvokeTyped
    \/ LiveInvokeRaw
    \/ LiveTransportSettles

SpecLive ==
    /\ Init
    /\ [][NextLive]_vars
    /\ \A c \in CallIds : WF_vars(TransportSettles(c))

\* ================================================================= claims
Answered(c) == calls[c].pc = "done" /\ calls[c].transport = "responded"
ReturnedResult(c) == Answered(c) /\ calls[c].outcome.kind = "returned"
StatusOf(c) == calls[c].response.status
DataOf(c) == calls[c].outcome.result.data
ErrorOf(c) == calls[c].outcome.result.error
AllOps == TypedOps \cup {"callApi"}
\* the response body as decoded by the extended-JSON codec
DecodedBody(c) == EJSONparseTree(calls[c].response.body.tree)

\* C1: for every operation, a response with status below 200 or at least
\* 400 gives a result with data undefined and an error whose code is the
\* response status.
C1_ErrorStatusGivesCode ==
    \A c \in CallIds :
        (Answered(c) /\ (StatusOf(c) < 200 \/ StatusOf(c) >= 400)) =>
            /\ calls[c].op \in AllOps
            /\ calls[c].outcome.kind = "returned"
            /\ DataOf(c) = UndefVal
            /\ ErrorOf(c).k = "MongoDataAPIError"
            /\ ErrorOf(c).code = StatusOf(c)

C1_Witness ==
    \E c \in CallIds :
        /\ Answered(c)
        /\ calls[c].op = "aggregate"
        /\ StatusOf(c) = 199
        /\ ErrorOf(c).code = 199
        /\ DataOf(c) = UndefVal

\* The unwrap rule of the operation table: findOne takes .document (absent
\* or null gives null), find and aggregate take .documents, the others
\* take the decoded body as it is.  A falsy body (null, false, 0, "") is no
\* envelope and has nothing to unwrap: it is the payload itself.
TableUnwrap(op, v) ==
    IF ~Truthy(v) THEN v
    ELSE CASE op = "findOne" -> Lift(Coalesce(OptGet(v, "document"), Null))
           [] op \in {"find", "aggregate"} -> Lift(OptGet(v, "documents"))
           [] OTHER -> v

SuccessResult(c) ==
    ReturnedResult(c) /\ StatusOf(c) >= 200 /\ StatusOf(c) <= 399

UnknownError ==
    [k |-> "MongoDataAPIError", code |-> -1, message |-> "Unknown error"]

\* C2 (as stated): for every operation and every response with status in
\* 200..399, the result has error undefined and data equal to the decoded
\* body after the operation's unwrap rule.
C2_Original ==
    \A c \in CallIds :
        SuccessResult(c) =>
            /\ ErrorOf(c) = NoError
            /\ DataOf(c) = TableUnwrap(calls[c].op, DecodedBody(c))

\* C2 (amended): the statement holds for every operation but aggregate on a
\* falsy decoded body (null, false, 0, ""), where aggregate returns data
\* undefined and the error "Unknown error" (code -1).
C2_Amended ==
    \A c \in CallIds :
        SuccessResult(c) =>
            IF calls[c].op = "aggregate" /\ ~Truthy(DecodedBody(c))
            THEN DataOf(c) = UndefVal /\ ErrorOf(c) = UnknownError
            ELSE /\ ErrorOf(c) = NoError
                 /\ DataOf(c) = TableUnwrap(calls[c].op, DecodedBody(c))

C2_Witness ==
    \E c \in CallIds :
        /\ SuccessResult(c)
        /\ calls[c].op = "findOne"
        /\ StatusOf(c) = 399
        /\ DataOf(c) = Lift(Atom("ObjectId", "b", <<>>))
        /\ ErrorOf(c) = NoError

DataPresent(c) == ~Nullish(DataOf(c))
ErrorPresent(c) == ErrorOf(c).k # "undefined"
TypedResult(c) == ReturnedResult(c) /\ calls[c].op \in TypedOps

\* C3 (as stated): every result of a typed operation has exactly one of
\* data and error present, never both and never neither; the only
\* exception is findOne, whose successful no-match has data null and no
\* error.
C3_Original ==
    \A c \in CallIds :
        TypedResult(c) =>
            /\ ~(DataPresent(c) /\ ErrorPresent(c))
            /\ \/ DataPresent(c)
               \/ ErrorPresent(c)
               \/ /\ calls[c].op = "findOne"
                  /\ SuccessResult(c)
                  /\ DataOf(c) = Lift(Null)

\* The field a typed operation unwraps from a decoded envelope
Payload(op, v) ==
    CASE op = "findOne" -> OptGet(v, "document")
      [] op \in {"find", "aggregate"} -> OptGet(v, "documents")
      [] OTHER -> AtomOf(v)

\* C3 (amended): a result never has both data and error present, and data
\* is undefined whenever error is present.  Both are absent (data null or
\* undefined, error undefined) exactly on a success response whose decoded
\* body either is truthy but has no non-null value in the unwrapped field
\* (document for findOne, documents for find and aggregate), or is JSON
\* null (any typed operation but aggregate, which then returns the error
\* "Unknown error").
C3_Amended ==
    \A c \in CallIds :
        TypedResult(c) =>
            /\ ~(DataPresent(c) /\ ErrorPresent(c))
            /\ ErrorPresent(c) => DataOf(c) = UndefVal
            /\ (~DataPresent(c) /\ ~ErrorPresent(c)) <=>
                  /\ SuccessResult(c)
                  /\ IF Truthy(DecodedBody(c))
                     THEN Nullish(Payload(calls[c].op, DecodedBody(c)))
                     ELSE /\ DecodedBody(c).k = "null"
                          /\ calls[c].op # "aggregate"

C3_Witness ==
    \E c \in CallIds :
        /\ TypedResult(c)
        /\ calls[c].op = "find"
        /\ StatusOf(c) = 200
        /\ calls[c].response.body.raw = "{}"
        /\ DataOf(c) = UndefVal
        /\ ErrorOf(c) = NoError

\* C4: a response with a status outside 200..399 never makes the operation
\* throw, whatever its body (JSON with or without an error field, text,
\* empty, unreadable): the failure is returned as the error member.
C4_ErrorStatusNeverThrows ==
    \A c \in CallIds :
        (Answered(c) /\ ~(StatusOf(c) >= 200 /\ StatusOf(c) <= 399)) =>
            /\ calls[c].outcome.kind # "threw"
            /\ calls[c].outcome.exception = ""
            /\ ErrorPresent(c)

C4_Witness ==
    \E c \in CallIds :
        /\ Answered(c)
        /\ StatusOf(c) = 500
        /\ ~calls[c].response.body.readable
        /\ calls[c].outcome.kind = "returned"
        /\ ErrorPresent(c)

\* C5: findOne on a success response whose decoded envelope has document
\* null or no document returns data null and no error; with a non-null
\* document it returns that document unchanged.
C5_FindOneDocument ==
    \A c \in CallIds :
        (SuccessResult(c) /\ calls[c].op = "findOne"
            /\ DecodedBody(c).k = "object") =>
            LET d == DecodedBody(c).props["document"]
            IN  /\ ErrorOf(c) = NoError
                /\ d.k \in {"null", "undefined"} => DataOf(c) = Lift(Null)
                /\ d.k \notin {"null", "undefined"} => DataOf(c) = Lift(d)

C5_Witness ==
    \E c \in CallIds :
        /\ SuccessResult(c)
        /\ calls[c].op = "findOne"
        /\ calls[c].response.body.raw = "{}"
        /\ DataOf(c) = Lift(Null)
        /\ ErrorOf(c) = NoError

\* C6: find on a success response whose decoded envelope has a documents
\* sequence returns that sequence: same length, same elements, same order.
C6_FindDocuments ==
    \A c \in CallIds :
        (SuccessResult(c) /\ calls[c].op = "find"
            /\ DecodedBody(c).k = "object"
            /\ DecodedBody(c).props["documents"].k = "array") =>
            LET docs == DecodedBody(c).props["documents"].items
            IN  /\ DataOf(c).k = "array"
                /\ Len(DataOf(c).items) = Len(docs)
                /\ \A i \in 1 .. Len(docs) : DataOf(c).items[i] = docs[i]

C6_Witness ==
    \E c \in CallIds :
        /\ SuccessResult(c)
        /\ calls[c].op = "find"
        /\ DataOf(c).k = "array"
        /\ DataOf(c).items = <<Scalar("ObjectId", "b"), Scalar("doc", "a")>>

Invoked(c) == calls[c].pc # "idle" /\ calls[c].request # NoRequest
ScopeKeys == {"collection", "database", "dataSource"}
\* the value the scope of call c contributes under a scope key
ScopeValue(c, key) ==
    CASE key = "collection" -> Str(calls[c].scope.name)
      [] key = "database" -> Str(calls[c].scope.database.name)
      [] key = "dataSource" -> Str(calls[c].scope.client.dataSource)

\* C8 (as stated): for every operation, a top-level field of the caller
\* body whose value is null or undefined is absent from the serialized
\* request body; it is never sent as an explicit null.
C8_Original ==
    \A c \in CallIds :
        Invoked(c) =>
            \A key \in DOMAIN calls[c].body :
                Nullish(calls[c].body[key]) =>
                    key \notin DOMAIN calls[c].request.body

\* C8 (amended): such a field is never sent as an explicit null: it is
\* absent from the serialized request body, unless its key is collection,
\* database or dataSource, in which case the body carries the scope's own
\* value under that key.
C8_Amended ==
    \A c \in CallIds :
        Invoked(c) =>
            \A key \in DOMAIN calls[c].body :
                Nullish(calls[c].body[key]) =>
                    IF key \in ScopeKeys
                    THEN /\ key \in DOMAIN calls[c].request.body
                         /\ calls[c].request.body[key] = ScopeValue(c, key)
                         /\ calls[c].request.body[key] # Null
                    ELSE key \notin DOMAIN calls[c].request.body

C8_Witness ==
    \E c \in CallIds :
        /\ calls[c].transport = "pending"
        /\ calls[c].op = "find"
        /\ "projection" \in DOMAIN calls[c].body
        /\ calls[c].body["projection"] = Null
        /\ calls[c].body["sort"] = Undef
        /\ "limit" \in DOMAIN calls[c].request.body
        /\ DOMAIN calls[c].request.body \cap {"projection", "sort"} = {}

\* C9: body composition removes only null and undefined top-level values:
\* every other top-level field of the caller body (false, 0 and "" too) is
\* in the serialized request body with its value unchanged, nested nulls
\* included.
C9_OnlyNullishRemoved ==
    \A c \in CallIds :
        Invoked(c) =>
            \A key \in DOMAIN calls[c].body :
                ~Nullish(calls[c].body[key]) =>
                    /\ key \in DOMAIN calls[c].request.body
                    /\ calls[c].request.body[key]
                          = EJSONValueOut(calls[c].body[key])

\* "key" in auth, and the four recognised shapes of an auth specifier
HasKey(auth, key) == key \in DOMAIN auth.obj
RecognisedShape(auth) ==
    \/ HasKey(auth, "apiKey")
    \/ HasKey(auth, "jwtTokenString")
    \/ HasKey(auth, "email") /\ HasKey(auth, "password")
    \/ HasKey(auth, "bearerToken")

\* C10: constructing a client with an auth specifier that matches none of
\* the four shapes (an email without password, or a password without email,
\* matches none) raises a local error at construction, and the construction
\* calls the transport zero times and starts no operation.
C10_BadAuthThrowsAtConstruction ==
    [][(/\ ctor' # ctor
        /\ ctor'.options.auth.given
        /\ ~RecognisedShape(ctor'.options.auth))
       => (/\ ctor'.state = "threw"
           /\ ctor'.error = "Error: Invalid auth options"
           /\ ctor'.client = NoClient
           /\ fetchCalls' = fetchCalls
           /\ calls' = calls)]_vars

C10_Witness ==
    /\ ctor.state = "threw"
    /\ ctor.options.auth.given
    /\ DOMAIN ctor.options.auth.obj = {"email"}
    /\ fetchCalls = 0

\* the transport function a construction with these options resolves to
UsableFetch(options) == ResolveFetch(options, globalFetch) = "function"

\* C11: constructing a client when no usable transport function is
\* available (the supplied fetch is not a function, or none is supplied and
\* there is no global fetch) fails at construction time with a local error:
\* no client is built, so no operation can be invoked on it, and the
\* transport is not called.
C11_NoFetchThrowsAtConstruction ==
    [][(/\ ctor' # ctor
        /\ ~UsableFetch(ctor'.options))
       => (/\ ctor'.state = "threw"
           /\ ctor'.client = NoClient
           /\ fetchCalls' = fetchCalls
           /\ calls' = calls)]_vars

\* headers.get(name): header names compare without regard to case; <<>>
\* stands for a header that is absent
HeaderGet(headers, name) ==
    IF \E m \in DOMAIN headers : Lower(m) = Lower(name)
    THEN headers[CHOOSE m \in DOMAIN headers : Lower(m) = Lower(name)]
    ELSE <<>>

AuthHeaderNames ==
    {"apiKey", "jwtTokenString", "email", "password", "Authorization"}

\* an auth specifier of exactly one variant
OneVariant(auth) ==
    /\ auth.given
    /\ DOMAIN auth.obj \in {{"apiKey"}, {"jwtTokenString"},
                            {"email", "password"}, {"bearerToken"}}

\* the value the variant gives to an auth header
VariantHeader(auth, name) ==
    CASE name = "Authorization" /\ HasKey(auth, "bearerToken") ->
            <<"Bearer ", auth.obj["bearerToken"]>>
      [] name # "Authorization" /\ HasKey(auth, name) -> <<auth.obj[name]>>
      [] OTHER -> <<>>

\* C12: the auth headers resolved at construction are those of the auth
\* variant and no other (apiKey; jwtTokenString; email and password;
\* Authorization with 'Bearer ' followed by the token), and every request
\* sent by a scope of a client carries the auth headers of that client.
C12_AuthHeadersByVariant ==
    /\ (ctor.state = "ok" /\ OneVariant(ctor.options.auth)) =>
          \A n \in AuthHeaderNames :
              HeaderGet(ctor.client.headers, n)
                 = VariantHeader(ctor.options.auth, n)
    /\ \A c \in CallIds :
          calls[c].sent = 1 =>
              \A n \in AuthHeaderNames :
                  HeaderGet(calls[c].request.headers, n)
                     = HeaderGet(calls[c].scope.client.headers, n)

C12_Witness ==
    /\ ctor.state = "ok"
    /\ DOMAIN ctor.options.auth.obj = {"bearerToken"}
    /\ calls[1].transport = "pending"
    /\ calls[1].scope.client = ctor.client
    /\ ctor.client.impl = "part_000"
    /\ HeaderGet(calls[1].request.headers, "Authorization")
          = <<"Bearer ", "tok">>
    /\ HeaderGet(calls[1].request.headers, "apiKey") = <<>>

\* an invocation starts on call slot c in this step
Starts(c) == calls[c].pc # "awaiting" /\ calls'[c] # calls[c]
\* the invocation on call slot c ends in this step
Ends(c) == calls[c].pc = "awaiting" /\ calls'[c] # calls[c]

\* C13: each invocation of an operation method calls the transport exactly
\* once, with method POST and the URL made of the client's endpoint,
\* '/action/' and the operation name (the method argument for callApi);
\* whatever the response, the invocation ends without another call.
C13_OnePostPerInvocation ==
    [][\A c \in CallIds :
          /\ Starts(c) =>
                /\ calls'[c].sent = 1
                /\ fetchCalls' = fetchCalls + 1
                /\ calls'[c].request.method = "POST"
                /\ calls'[c].request.url
                      = <<calls'[c].scope.client.endpoint, "/action/",
                          calls'[c].method>>
                /\ calls'[c].op \in TypedOps =>
                      calls'[c].method = calls'[c].op
          /\ Ends(c) =>
                /\ calls'[c].pc = "done"
                /\ calls'[c].sent = 1
                /\ calls'[c].request = calls[c].request
                /\ fetchCalls' = fetchCalls]_vars

\* C13 for the invocations that pass callApi an options object
C13_WithRequestOptions ==
    [][\A c \in CallIds :
          /\ (Starts(c) /\ calls'[c].request # NoRequest) =>
                /\ calls'[c].sent = 1
                /\ fetchCalls' = fetchCalls + 1
                /\ calls'[c].request.method = "POST"
                /\ calls'[c].request.url
                      = <<calls'[c].scope.client.endpoint, "/action/",
                          calls'[c].method>>
          /\ Ends(c) =>
                /\ calls'[c].pc = "done"
                /\ calls'[c].sent = 1
                /\ fetchCalls' = fetchCalls]_vars

\* a non-empty string
NonEmpty(v) == v.k = "string" /\ v.s # ""

\* C14: every request body carries collection, database and dataSource;
\* under a key the caller body does not specify, the value is the name of
\* the Collection scope, of its Database scope, or the client's data
\* source; under a key the caller body gives a non-empty value, the value
\* sent is the caller's.
C14_ScopeKeysMerged ==
    \A c \in CallIds :
        Invoked(c) =>
            \A key \in ScopeKeys :
                /\ key \in DOMAIN calls[c].request.body
                /\ key \notin DOMAIN calls[c].body =>
                      calls[c].request.body[key] = ScopeValue(c, key)
                /\ (/\ key \in DOMAIN calls[c].body
                    /\ NonEmpty(calls[c].body[key])) =>
                      calls[c].request.body[key] = calls[c].body[key]

C14_Witness ==
    \E c \in CallIds :
        /\ calls[c].transport = "pending"
        /\ calls[c].op = "callApi"
        /\ "collection" \in DOMAIN calls[c].body
        /\ calls[c].body["collection"] = Str("other")
        /\ calls[c].request.body["collection"] = Str("other")
        /\ "dataSource" \notin DOMAIN calls[c].body
        /\ calls[c].request.body["dataSource"] = Str("test-datasource")
        /\ calls[c].request.body["database"] = Str("test-db")

\* the tracing label of call c: the leading string argument, or 'default'
\* when the call has none
LabelOf(c) ==
    IF calls[c].label.k = "string" THEN calls[c].label.s ELSE "default"

\* C15: for every typed operation, a leading string argument is the tracing
\* label and is sent as the x-realm-op-name request header, the header is
\* sent with the value 'default' when the label is omitted, and a call
\* with a label composes the same body as the call without it.
C15_LabelSentAsHeader ==
    \A c \in CallIds :
        (Invoked(c) /\ calls[c].op \in TypedOps) =>
            /\ HeaderGet(calls[c].request.headers, "x-realm-op-name")
                  = <<LabelOf(c)>>
            /\ \A l \in Labels(calls[c].scope.client.impl),
                  args \in ArgsFor(calls[c].op) :
                  BodyOf(calls[c].op,
                         NormalizeArgs(calls[c].scope.client.impl, l \o args))
                     = BodyOf(calls[c].op,
                              NormalizeArgs(calls[c].scope.client.impl, args))

\* C15 for the labelled revision and a label that is not the empty string
C15_NonEmptyLabel ==
    \A c \in CallIds :
        (/\ Invoked(c)
         /\ calls[c].op \in TypedOps
         /\ calls[c].scope.client.impl = "part_000"
         /\ calls[c].label # EmptyStr) =>
            HeaderGet(calls[c].request.headers, "x-realm-op-name")
               = <<LabelOf(c)>>

ErrorStatus(c) == StatusOf(c) < 200 \/ StatusOf(c) >= 400
\* the response of call c has a JSON body that is an object
JsonObjectBody(c) ==
    /\ calls[c].response.body.readable
    /\ calls[c].response.body.json
    /\ calls[c].response.body.tree.k = "object"
\* the error field of that body
ErrorField(c) == calls[c].response.body.tree.props["error"]

\* C16: when a non-success response has a JSON body with a string field
\* named error, the operation returns data undefined and an error whose
\* message is that field's value and whose code is the status.
C16_MessageFromErrorField ==
    \A c \in CallIds :
        (/\ Answered(c)
         /\ ErrorStatus(c)
         /\ JsonObjectBody(c)
         /\ ErrorField(c).k = "string") =>
            /\ calls[c].outcome.kind = "returned"
            /\ DataOf(c) = UndefVal
            /\ ErrorOf(c).k = "MongoDataAPIError"
            /\ ErrorOf(c).message = ErrorField(c).s
            /\ ErrorOf(c).code = StatusOf(c)

C16_Witness ==
    \E c \in CallIds :
        /\ Answered(c)
        /\ calls[c].op = "findOne"
        /\ StatusOf(c) = 401
        /\ calls[c].response.statusText = Str("Status Text")
        /\ JsonObjectBody(c)
        /\ ErrorField(c) = Str("Unauthorized")
        /\ DataOf(c) = UndefVal
        /\ ErrorOf(c).message = "Unauthorized"
        /\ ErrorOf(c).code = 401

\* The sources of the error message, as the cascade names them
ErrorFieldAvailable(c) == JsonObjectBody(c) /\ ~Nullish(ErrorField(c))
RawTextAvailable(c) == calls[c].response.body.readable
StatusTextAvailable(c) == ~Nullish(calls[c].response.statusText)
DefaultAvailable(c) == StatusOf(c) \in {400, 401, 404, 500}
DefaultFor(status) ==
    CASE status = 400 -> "Bad Request"
      [] status = 401 -> "Unauthorized"
      [] status = 404 -> "Not Found"
      [] status = 500 -> "Internal Server Error"

CascadeMessage(c) ==
    IF ErrorFieldAvailable(c) THEN ErrorField(c).s
    ELSE IF RawTextAvailable(c) THEN calls[c].response.body.raw
    ELSE IF StatusTextAvailable(c) THEN calls[c].response.statusText.s
    ELSE IF DefaultAvailable(c) THEN DefaultFor(StatusOf(c))
    ELSE "Data API Error"

\* C17: on a non-success response the error message is the first available
\* of: the error field of the JSON body, the raw response text, the status
\* text, the fixed default of the status (400, 401, 404, 500), and the
\* generic 'Data API Error'; each later source is used exactly when all
\* earlier ones are unavailable.
C17_StrictCascade ==
    \A c \in CallIds :
        (Answered(c) /\ ErrorStatus(c)) =>
            /\ calls[c].outcome.kind = "returned"
            /\ ErrorOf(c).message = CascadeMessage(c)

CustomHeaders == ctor.options.headers.entries
\* call c was sent by a scope of the client recorded in ctor
SentByCtorClient(c) ==
    /\ ctor.state = "ok"
    /\ calls[c].sent = 1
    /\ calls[c].scope.client = ctor.client

\* C19: custom headers supplied at client construction, as a Headers
\* object or as a plain object, are among the headers of every request the
\* client sends.
C19_CustomHeadersSent ==
    \A c \in CallIds :
        SentByCtorClient(c) =>
            \A n \in DOMAIN CustomHeaders :
                HeaderGet(calls[c].request.headers, n) = CustomHeaders[n]

\* C19 for a Headers object given to the revision that reads the option
C19_HeadersObjectSent ==
    \A c \in CallIds :
        (/\ SentByCtorClient(c)
         /\ ctor.client.impl = "client_ts"
         /\ ctor.options.headers.kind = "Headers") =>
            \A n \in DOMAIN CustomHeaders :
                HeaderGet(calls[c].request.headers, n) = CustomHeaders[n]

\* the request of call c carries the identifiers of its own scope, its own
\* label and its own body
OwnRequest(c) ==
    Invoked(c) =>
        /\ \A key \in ScopeKeys \ DOMAIN calls[c].body :
              calls[c].request.body[key] = ScopeValue(c, key)
        /\ \A key \in DOMAIN calls[c].body :
              Truthy(calls[c].body[key]) =>
                  calls[c].request.body[key]
                     = EJSONValueOut(calls[c].body[key])
        /\ DOMAIN calls[c].request.body
              \subseteq ScopeKeys \cup DOMAIN calls[c].body
        /\ Truthy(calls[c].label) =>
              HeaderGet(calls[c].request.headers, "x-realm-op-name")
                 = <<calls[c].label.s>>
        /\ HeaderGet(calls[c].request.headers, "x-realm-op-name")
              \in {<<>>, <<LabelOf(c)>>}

\* the result of call c is that of its own operation on its own response
OwnResult(c) ==
    Answered(c) =>
        calls[c].outcome
           = Operation(calls[c].op, calls[c].scope.client.impl,
                       calls[c].response)

\* C20: with several operations in flight at once on scopes sharing one
\* client, in every interleaving of the sends and of the arrivals of the
\* responses, a step of one operation leaves every other operation as it
\* was, each request carries the scope identifiers, label and body of its
\* own operation, and each result is that of the operation's own response.
C20_OperationsIndependent ==
    [][\A c \in CallIds :
          calls'[c] # calls[c] =>
              /\ \A d \in CallIds \ {c} : calls'[d] = calls[d]
              /\ OwnRequest(c)'
              /\ OwnResult(c)'
              /\ Ends(c) => calls'[c].request = calls[c].request]_vars

C20_Witness ==
    /\ calls[1].transport = "pending"
    /\ calls[2].transport = "responded"
    /\ calls[1].scope # calls[2].scope
    /\ calls[1].op = "aggregate"
    /\ calls[2].op = "findOne"
    /\ calls[1].label # calls[2].label
    /\ calls[1].request.body["collection"] = Str("test-collection")
    /\ calls[2].request.body["collection"] = Str("other-collection")
    /\ StatusOf(2) = 200
    /\ DataOf(2) = Lift(Null)
    /\ fetchCalls = 2

\* The four authentication variants, in the order they are matched, with
\* the keys that select each and the headers each contributes
Variants == <<"apiKey", "jwtTokenString", "emailPassword", "bearerToken">>
VariantKeys(v) ==
    CASE v = "emailPassword" -> {"email", "password"}
      [] OTHER -> {v}
VariantHeaderNames(v) ==
    CASE v = "emailPassword" -> {"email", "password"}
      [] v = "bearerToken" -> {"Authorization"}
      [] OTHER -> {v}
MatchesVariant(auth, v) == VariantKeys(v) \subseteq DOMAIN auth.obj
\* the position of the first variant the auth specifier matches, 0 if none
FirstMatch(auth) ==
    IF \E i \in 1..4 : MatchesVariant(auth, Variants[i])
    THEN CHOOSE i \in 1..4 :
            /\ MatchesVariant(auth, Variants[i])
            /\ \A j \in 1..(i - 1) : ~MatchesVariant(auth, Variants[j])
    ELSE 0
\* the auth headers a client holds
AuthHeadersPresent(client) ==
    {n \in AuthHeaderNames : HeaderGet(client.headers, n) # <<>>}

\* C21: every successfully constructed client has exactly one
\* authentication variant active: its auth headers are the headers of one
\* variant and of no other, and that variant is the first one the auth
\* specifier matches in the order apiKey, jwtTokenString, email+password,
\* bearerToken.
C21_ExactlyOneVariant ==
    ctor.state = "ok" =>
        /\ FirstMatch(ctor.options.auth) # 0
        /\ AuthHeadersPresent(ctor.client)
              = VariantHeaderNames(Variants[FirstMatch(ctor.options.auth)])

\* C21 for the constructions that are given an auth specifier
C21_GivenAuth ==
    (ctor.state = "ok" /\ ctor.options.auth.given) =>
        /\ FirstMatch(ctor.options.auth) # 0
        /\ AuthHeadersPresent(ctor.client)
              = VariantHeaderNames(Variants[FirstMatch(ctor.options.auth)])

\* the body of the response of call c cannot be decoded
Undecodable(c) ==
    ~calls[c].response.body.readable \/ ~calls[c].response.body.json

\* C22: when the response status is in 200..399 and the body cannot be
\* decoded by the extended-JSON codec (malformed or empty), the operation
\* returns no result: the decode failure reaches the caller and is not put
\* in the error member.
C22_DecodeFailurePropagates ==
    \A c \in CallIds :
        (Answered(c) /\ ~ErrorStatus(c) /\ Undecodable(c)) =>
            /\ calls[c].outcome.kind = "threw"
            /\ calls[c].outcome.exception \in
                  {"SyntaxError", "TypeError: body unreadable"}
            /\ calls[c].outcome.result = Result(UndefVal, NoError)

C22_Witness ==
    \E c \in CallIds :
        /\ Answered(c)
        /\ calls[c].op = "insertOne"
        /\ StatusOf(c) = 201
        /\ calls[c].response.body = TextBody("")
        /\ calls[c].outcome.kind = "threw"
        /\ calls[c].outcome.exception = "SyntaxError"

NoOperationInvoked == \A c \in CallIds : calls[c].pc = "idle"

\* C23: after any sequence of client constructions (successful or
\* failing), db(name) calls and collection(name) calls, with no operation
\* method invoked, the transport has been called zero times.
C23_NoTransportBeforeOperations ==
    NoOperationInvoked => fetchCalls = 0

C23_Witness ==
    /\ NoOperationInvoked
    /\ ctor.state = "threw"
    /\ dbs # {}
    /\ colls # {}
    /\ fetchCalls = 0

\* the connection contexts in use: that of the latest client and those the
\* scopes hold
Contexts ==
    {d.client : d \in dbs} \cup {s.client : s \in colls}
       \cup {s.database.client : s \in colls}
PerCallHeaders == {"x-realm-op-name", "content-type"}

\* C24: no operation method and no db or collection call changes the
\* connection context: a step of an operation leaves the client and every
\* scope as they were, a db or collection call adds a scope on the same
\* context and changes no existing one, and the headers set per call
\* (tracing label, content type) are never added to the shared headers.
C24_ConnectionUnchanged ==
    [][/\ calls' # calls =>
             /\ ctor' = ctor
             /\ dbs' = dbs
             /\ colls' = colls
       /\ (dbs' # dbs \/ colls' # colls) =>
             /\ ctor' = ctor
             /\ dbs \subseteq dbs'
             /\ colls \subseteq colls'
             /\ Contexts' \subseteq Contexts \cup {ctor.client}
       /\ \A s \in colls' :
             s.client.impl = "part_000" =>
                 DOMAIN s.client.headers \cap PerCallHeaders = {}]_vars

C24_Witness ==
    \E c \in CallIds :
        /\ Answered(c)
        /\ StatusOf(c) = 400
        /\ calls[c].scope \in colls
        /\ calls[c].scope.client.impl = "part_000"
        /\ HeaderGet(calls[c].request.headers, "x-realm-op-name")
              = <<"default">>
        /\ HeaderGet(calls[c].scope.client.headers, "x-realm-op-name") = <<>>
        /\ HeaderGet(calls[c].scope.client.headers, "content-type") = <<>>
        /\ fetchCalls = 2

\* C25: db(name) and collection(name) create independent scopes: no step
\* (creating a scope, invoking an operation, an answer of the transport)
\* changes or removes an existing scope, every Collection scope has its
\* parent Database scope, and every request carries the collection name of
\* the scope it was invoked on and the name of that scope's Database scope
\* as database.
C25_ScopesIndependent ==
    [][/\ dbs \subseteq dbs'
       /\ colls \subseteq colls'
       /\ \A s \in colls' : s.database \in dbs'
       /\ \A c \in CallIds :
             Invoked(c)' =>
                 /\ calls'[c].scope \in colls'
                 /\ calls'[c].request.body["collection"]
                       = Str(calls'[c].scope.name)
                 /\ calls'[c].request.body["database"]
                       = Str(calls'[c].scope.database.name)
                 /\ calls'[c].pc # "idle" /\ calls[c].pc = "awaiting" =>
                       calls'[c].scope = calls[c].scope]_vars

C25_Witness ==
    /\ calls[1].transport = "pending"
    /\ calls[2].transport = "pending"
    /\ calls[1].scope.name = "test-collection"
    /\ calls[1].scope.database.name = "test-db"
    /\ calls[2].scope.name = "test-collection"
    /\ calls[2].scope.database.name = "other-db"
    /\ calls[1].request.body["database"] = Str("test-db")
    /\ calls[2].request.body["database"] = Str("other-db")
    /\ Cardinality(colls) = 2

\* C26: every Database and Collection scope carries a non-empty name, and
\* no request is sent with an empty database or collection name.
C26_NamesNonEmpty ==
    /\ \A d \in dbs : d.name # ""
    /\ \A s \in colls : s.name # "" /\ s.database.name # ""
    /\ \A c \in CallIds :
          calls[c].sent = 1 =>
              /\ calls[c].request.body["database"] # EmptyStr
              /\ calls[c].request.body["collection"] # EmptyStr

\* C26, the requests alone
C26_NoEmptyNameSent ==
    \A c \in CallIds :
        calls[c].sent = 1 =>
            /\ calls[c].request.body["database"] # EmptyStr
            /\ calls[c].request.body["collection"] # EmptyStr

NoUnwrapOps ==
    {"insertOne", "insertMany", "updateOne", "updateMany", "replaceOne",
     "deleteOne", "deleteMany", "callApi"}

\* C27: for the operations without an unwrap rule, the result of a success
\* response is the generic invoker's result: data is the whole decoded
\* body, no field extracted, added or removed, and error is undefined.
C27_NoUnwrapPassThrough ==
    \A c \in CallIds :
        (SuccessResult(c) /\ calls[c].op \in NoUnwrapOps) =>
            /\ DataOf(c) = DecodedBody(c)
            /\ ErrorOf(c) = NoError
            /\ calls[c].outcome
                  = callApi(calls[c].scope.client.impl, calls[c].response)

C27_Witness ==
    \E c \in CallIds :
        /\ SuccessResult(c)
        /\ calls[c].op = "insertOne"
        /\ StatusOf(c) = 201
        /\ calls[c].response.body.raw = "{insertedId:$oid}"
        /\ DataOf(c).k = "object"
        /\ DataOf(c).props["insertedId"] = Atom("ObjectId", "b", <<>>)
        /\ ErrorOf(c) = NoError

\* the result of the generic invoker underneath call c
Underlying(c) ==
    callApi(calls[c].scope.client.impl, calls[c].response).result
AggregateResult(c) == ReturnedResult(c) /\ calls[c].op = "aggregate"

\* C28 (as stated): aggregate returns the 'Unknown error' error with code
\* -1 exactly when the underlying invoker call produced neither data nor an
\* error; an error of the underlying call is returned as it is; and when
\* the underlying call produced data, no error is returned.
C28_Original ==
    \A c \in CallIds :
        AggregateResult(c) =>
            /\ ErrorOf(c) = UnknownError <=>
                  (Nullish(Underlying(c).data)
                      /\ Underlying(c).error = NoError)
            /\ Underlying(c).error # NoError =>
                  ErrorOf(c) = Underlying(c).error
            /\ ~Nullish(Underlying(c).data) => ErrorOf(c) = NoError

\* C28 (amended): the data of the underlying call counts only when it is
\* truthy: aggregate returns 'Unknown error' (code -1) exactly when the
\* underlying call produced no error and no truthy data (a decoded body of
\* null, false, 0 or ""); an error of the underlying call is returned as it
\* is, with data undefined; and when the underlying call produced truthy
\* data, no error is returned.
C28_Amended ==
    \A c \in CallIds :
        AggregateResult(c) =>
            /\ ErrorOf(c) = UnknownError <=>
                  (~Truthy(Underlying(c).data)
                      /\ Underlying(c).error = NoError)
            /\ Underlying(c).error # NoError =>
                  /\ ErrorOf(c) = Underlying(c).error
                  /\ DataOf(c) = UndefVal
            /\ Truthy(Underlying(c).data) => ErrorOf(c) = NoError

C28_Witness ==
    \E c \in CallIds :
        /\ AggregateResult(c)
        /\ StatusOf(c) = 200
        /\ calls[c].response.body.raw = "0"
        /\ Underlying(c).data = Lift(Zero)
        /\ Underlying(c).error = NoError
        /\ ErrorOf(c) = UnknownError
        /\ DataOf(c) = UndefVal

\* the steps an invocation on call slot c can take
PhaseStep(c) ==
    /\ calls[c].pc = "done" => calls'[c] = calls[c]
    /\ (calls[c].pc = "idle" /\ calls'[c] # calls[c]) =>
          \/ /\ calls'[c].pc = "awaiting"
             /\ calls'[c].sent = 1
             /\ calls'[c].transport = "pending"
             /\ calls'[c].outcome.kind = "none"
          \/ /\ calls'[c].pc = "done"
             /\ calls'[c].sent = 0
             /\ calls'[c].outcome.kind = "threw"
    /\ (calls[c].pc = "awaiting" /\ calls'[c] # calls[c]) =>
          /\ calls'[c].pc = "done"
          /\ calls'[c].sent = 1
          /\ calls'[c].request = calls[c].request
          /\ calls'[c].transport \in {"responded", "rejected"}
          /\ calls'[c].outcome.kind \in {"returned", "threw"}
          /\ calls'[c].transport = "rejected" =>
                calls'[c].outcome.kind = "threw"

StepsOf(c) == calls[c].outcome.reads
Ran(c, step) == \E i \in 1..Len(StepsOf(c)) : StepsOf(c)[i] = step

\* C30: the status is classified before the body is decoded: on a response
\* with status outside 200..399 the success-path read and decode (response
\* text, then extended-JSON parse) and the envelope unwrap never run, and
\* on a response with status in 200..399 the extraction of the error
\* message never runs.
C30_ClassifiedBeforeDecode ==
    \A c \in CallIds :
        Answered(c) =>
            IF ErrorStatus(c)
            THEN /\ StepsOf(c) \in {<<"json">>, <<"json", "text">>}
                 /\ ~Ran(c, "EJSON.parse")
                 /\ ~Ran(c, "unwrap")
            ELSE /\ Len(StepsOf(c)) >= 1
                 /\ StepsOf(c)[1] = "text"
                 /\ ~Ran(c, "json")
                 /\ \A i \in 2..Len(StepsOf(c)) :
                       StepsOf(c)[i] \in {"EJSON.parse", "unwrap"}

C30_Witness ==
    /\ Answered(1)
    /\ calls[1].op = "find"
    /\ calls[1].scope.client.impl = "part_000"
    /\ StatusOf(1) = 500
    /\ calls[1].response.body = TextBody("<html>")
    /\ StepsOf(1) = <<"json", "text">>
    /\ ErrorOf(1).message = "<html>"

====
